---- MODULE Spec2Model ----
(***************************************************************************)
(* Model of hamalert-discord (src/app.py): TelnetListener.run, its login   *)
(* and handshake, the read loop, process_data and message_builder, and     *)
(* DiscordNotifier.send_message as the sink.                               *)
(*                                                                         *)
(* Text is a sequence of tokens (short strings).  Whitespace and the JSON  *)
(* punctuation are tokens of their own, so that strip(), json.loads() and  *)
(* the f-strings of message_builder are computed as the code computes them.*)
(***************************************************************************)
EXTENDS Integers, Sequences, FiniteSets, TLC

(* ------------------------------ bounds -------------------------------- *)
\* command prompts answered by the handshake loop per session
MaxPrompts == 1
\* reads dispatched by the main read loop per session
MaxReads == 2
\* wall clock ticks while the session runs
MaxTime == 1

(* ------------------------- configuration ------------------------------ *)
CfgUsername == "testuser"
CfgPassword == "testpass"

\* str.upper() on the call signs the model uses
Upper(s) ==
    CASE s = "testuser" -> "TESTUSER"
      [] s = "k1abc"    -> "K1ABC"
      [] OTHER          -> s

\* TelnetListener.__init__: self.username = username.upper()
Username == Upper(CfgUsername)

(* ------------------------------ text ---------------------------------- *)
WS == {" ", "\t", "\r", "\n"}
Q == "\""
BadByte == "<ff>"

RECURSIVE LStrip(_)
LStrip(s) == IF s # <<>> /\ Head(s) \in WS THEN LStrip(Tail(s)) ELSE s

RECURSIVE RStrip(_)
RStrip(s) ==
    IF s # <<>> /\ s[Len(s)] \in WS THEN RStrip(SubSeq(s, 1, Len(s) - 1)) ELSE s

\* str.strip()
Strip(s) == RStrip(LStrip(s))

\* bytes.decode("utf-8"): raises UnicodeDecodeError on an invalid byte
DecodeOk(raw) == \A i \in 1..Len(raw) : raw[i] # BadByte
Decode(raw) == raw

\* str(int(time.time())) for the clock values of the model
TimeStr(t) == CASE t = 0 -> "1700000000"
                [] t = 1 -> "1700000001"
                [] t = 2 -> "1700000002"
                [] OTHER -> "1700000003"

\* substring test on token texts: needle occurs contiguously in hay
Contains(hay, needle) ==
    \E i \in 1..(Len(hay) - Len(needle) + 1) :
        SubSeq(hay, i, i + Len(needle) - 1) = needle

StartsWith(hay, prefix) ==
    Len(hay) >= Len(prefix) /\ SubSeq(hay, 1, Len(prefix)) = prefix

(* --------------------------- json.loads ------------------------------- *)
\* The decoder covers the fragment the model's inputs use: an object whose
\* member values are strings or numbers, an array of strings, a string, a
\* number, true, false, null.  Anything else is a JSONDecodeError.
NumTokens == {"42", "14.250"}
LitTokens == {"true", "false", "null"}

RECURSIVE SkipWs(_, _)
SkipWs(s, i) == IF i <= Len(s) /\ s[i] \in WS THEN SkipWs(s, i + 1) ELSE i

\* index of the closing quote of the string opened at i-1, or 0
RECURSIVE CloseQuote(_, _)
CloseQuote(s, i) ==
    IF i > Len(s) THEN 0
    ELSE IF s[i] = Q THEN i ELSE CloseQuote(s, i + 1)

NoVal == [ok |-> FALSE, kind |-> "none", text |-> <<>>, next |-> 0]

\* a scalar value starting at i: string or number
ParseScalar(s, i) ==
    IF i > Len(s) THEN NoVal
    ELSE IF s[i] = Q THEN
        LET j == CloseQuote(s, i + 1) IN
        IF j = 0 THEN NoVal
        ELSE [ok |-> TRUE, kind |-> "string",
              text |-> SubSeq(s, i + 1, j - 1), next |-> j + 1]
    ELSE IF s[i] \in NumTokens THEN
        [ok |-> TRUE, kind |-> "number", text |-> <<s[i]>>, next |-> i + 1]
    ELSE IF s[i] \in LitTokens THEN
        [ok |-> TRUE, kind |-> IF s[i] = "null" THEN "null" ELSE "bool",
         text |-> <<s[i]>>, next |-> i + 1]
    ELSE NoVal

NoObj == [ok |-> FALSE, obj |-> <<>>, next |-> 0]

\* members of an object, i at the first key; a repeated key keeps the last
RECURSIVE ParseMembers(_, _, _)
ParseMembers(s, i, acc) ==
    LET k == ParseScalar(s, i) IN
    IF ~k.ok \/ k.kind # "string" THEN NoObj
    ELSE
        LET c == SkipWs(s, k.next) IN
        IF c > Len(s) \/ s[c] # ":" THEN NoObj
        ELSE
            LET v == ParseScalar(s, SkipWs(s, c + 1)) IN
            IF ~v.ok THEN NoObj
            ELSE
                LET e    == SkipWs(s, v.next)
                    acc2 == (k.text :> [kind |-> v.kind, text |-> v.text]) @@ acc
                IN
                IF e > Len(s) THEN NoObj
                ELSE IF s[e] = "}" THEN [ok |-> TRUE, obj |-> acc2, next |-> e + 1]
                ELSE IF s[e] = "," THEN ParseMembers(s, SkipWs(s, e + 1), acc2)
                ELSE NoObj

NoArr == [ok |-> FALSE, items |-> {}, next |-> 0]

\* elements of an array of strings, i at the first element
RECURSIVE ParseItems(_, _, _)
ParseItems(s, i, acc) ==
    LET v == ParseScalar(s, i) IN
    IF ~v.ok \/ v.kind # "string" THEN NoArr
    ELSE
        LET e    == SkipWs(s, v.next)
            acc2 == acc \cup {v.text}
        IN
        IF e > Len(s) THEN NoArr
        ELSE IF s[e] = "]" THEN [ok |-> TRUE, items |-> acc2, next |-> e + 1]
        ELSE IF s[e] = "," THEN ParseItems(s, SkipWs(s, e + 1), acc2)
        ELSE NoArr

JsonFail == [ok |-> FALSE, kind |-> "none", obj |-> <<>>, items |-> {}, text |-> <<>>]

\* json.loads(data): ok = FALSE stands for json.JSONDecodeError
JsonLoads(data) ==
    LET i == SkipWs(data, 1) IN
    IF i > Len(data) THEN JsonFail
    ELSE IF data[i] = "{" THEN
        LET j == SkipWs(data, i + 1) IN
        IF j <= Len(data) /\ data[j] = "}" THEN
            IF SkipWs(data, j + 1) > Len(data)
            THEN [ok |-> TRUE, kind |-> "object", obj |-> <<>>, items |-> {}, text |-> <<>>]
            ELSE JsonFail
        ELSE
            LET m == ParseMembers(data, j, <<>>) IN
            IF m.ok /\ SkipWs(data, m.next) > Len(data)
            THEN [ok |-> TRUE, kind |-> "object", obj |-> m.obj, items |-> {}, text |-> <<>>]
            ELSE JsonFail
    ELSE IF data[i] = "[" THEN
        LET j == SkipWs(data, i + 1) IN
        IF j <= Len(data) /\ data[j] = "]" THEN
            IF SkipWs(data, j + 1) > Len(data)
            THEN [ok |-> TRUE, kind |-> "array", obj |-> <<>>, items |-> {}, text |-> <<>>]
            ELSE JsonFail
        ELSE
            LET a == ParseItems(data, j, {}) IN
            IF a.ok /\ SkipWs(data, a.next) > Len(data)
            THEN [ok |-> TRUE, kind |-> "array", obj |-> <<>>, items |-> a.items, text |-> <<>>]
            ELSE JsonFail
    ELSE
        LET v == ParseScalar(data, i) IN
        IF v.ok /\ SkipWs(data, v.next) > Len(data)
        THEN [ok |-> TRUE, kind |-> v.kind, obj |-> <<>>, items |-> {}, text |-> v.text]
        ELSE JsonFail

(* ------------------------- process_data helpers ----------------------- *)
\* required_fields (process_data)
RequiredFields ==
    {"fullCallsign", "callsign", "frequency", "mode", "spotter", "time", "source"}

\* `key in data_dict` raises TypeError when data_dict is not a container
InRaises(j) == j.kind \in {"number", "bool", "null"}

\* `key in data_dict` for a dict (key), a list (element), a str (substring)
InValue(key, j) ==
    CASE j.kind = "object" -> <<key>> \in DOMAIN j.obj
      [] j.kind = "array"  -> <<key>> \in j.items
      [] j.kind = "string" -> Contains(j.text, <<key>>)
      [] OTHER             -> FALSE

\* variant: any() where the code has all()
HasAllRequiredAny(j) == \E key \in RequiredFields : InValue(key, j)

\* all(key in data_dict for key in required_fields)
HasAllRequired(j) == \A key \in RequiredFields : InValue(key, j)

\* payload[key] formatted into an f-string
Field(payload, key) == payload[<<key>>].text

\* payload.get('source') == name
SourceIs(payload, name) ==
    /\ <<"source">> \in DOMAIN payload
    /\ payload[<<"source">>].kind = "string"
    /\ payload[<<"source">>].text = <<name>>

SotaMarker == "<mountain> SOTA "
PotaMarker == "<tree> POTA "

\* variant: the summit line does not depend on the source
MessageBuilderSummitAlways(payload, t) ==
    LET message ==
            <<" spotted: **">> \o Field(payload, "fullCallsign") \o <<"** ", "on ">>
            \o Field(payload, "frequency") \o <<" ">> \o Field(payload, "mode")
            \o <<" <t:", TimeStr(t), ":R>">>
        summit ==
            IF <<"summitName">> \in DOMAIN payload
            THEN <<"\n", "Summit: ">> \o Field(payload, "summitName")
            ELSE <<>>
    IN
    IF SourceIs(payload, "sotawatch") THEN <<SotaMarker>> \o message \o summit
    ELSE IF SourceIs(payload, "pota") THEN
        <<PotaMarker>> \o message \o
            (IF <<"wwffName">> \in DOMAIN payload /\ <<"wwffRef">> \in DOMAIN payload
             THEN <<"\n", "Park:">> \o Field(payload, "wwffRef") \o <<"  ">>
                  \o Field(payload, "wwffName")
                  \o <<"\n", "<", "https://pota.app/#/park/">>
                  \o Field(payload, "wwffRef") \o <<">">>
             ELSE <<>>)
    ELSE message \o summit

\* variant: the sotawatch branch is never taken
MessageBuilderNoSota(payload, t) ==
    <<" spotted: **">> \o Field(payload, "fullCallsign") \o <<"** ", "on ">>
    \o Field(payload, "frequency") \o <<" ">> \o Field(payload, "mode")
    \o <<" <t:", TimeStr(t), ":R>">>

\* TelnetListener.message_builder, t the value of int(time.time())
MessageBuilder(payload, t) ==
    LET message ==
            <<" spotted: **">> \o Field(payload, "fullCallsign") \o <<"** ", "on ">>
            \o Field(payload, "frequency") \o <<" ">> \o Field(payload, "mode")
            \o <<" <t:", TimeStr(t), ":R>">>
    IN
    IF SourceIs(payload, "sotawatch") THEN
        <<SotaMarker>> \o message \o
            (IF <<"summitName">> \in DOMAIN payload
             THEN <<"\n", "Summit: ">> \o Field(payload, "summitName")
             ELSE <<>>)
    ELSE IF SourceIs(payload, "pota") THEN
        <<PotaMarker>> \o message \o
            (IF <<"wwffName">> \in DOMAIN payload /\ <<"wwffRef">> \in DOMAIN payload
             THEN <<"\n", "Park:">> \o Field(payload, "wwffRef") \o <<"  ">>
                  \o Field(payload, "wwffName")
                  \o <<"\n", "<", "https://pota.app/#/park/">>
                  \o Field(payload, "wwffRef") \o <<">">>
             ELSE <<>>)
    ELSE message

\* variant: a line that is not JSON is dropped like an incomplete record
ClassifyDropRaw(data) ==
    LET j == JsonLoads(data) IN
    IF ~j.ok THEN "drop"
    ELSE IF InRaises(j) THEN "raise"
    ELSE IF ~HasAllRequired(j) THEN "drop"
    ELSE IF j.kind = "object" THEN "message"
    ELSE "raise"

\* what process_data does with one line: "raw" forwards the line itself,
\* "drop" logs a warning, "message" forwards the built text, "raise" is the
\* TypeError of a membership test or a subscript on a value that is no dict
Classify(data) ==
    LET j == JsonLoads(data) IN
    IF ~j.ok THEN "raw"
    ELSE IF InRaises(j) THEN "raise"
    ELSE IF ~HasAllRequired(j) THEN "drop"
    ELSE IF j.kind = "object" THEN "message"
    ELSE "raise"

(* ------------------------------ inputs -------------------------------- *)
\* json.dumps of a dict of strings, pairs a sequence of <<key, value text>>
RECURSIVE DumpMembers(_)
DumpMembers(pairs) ==
    IF pairs = <<>> THEN <<>>
    ELSE <<Q, pairs[1][1], Q, ":", " ", Q>> \o pairs[1][2] \o <<Q>>
         \o (IF Len(pairs) > 1 THEN <<",", " ">> ELSE <<>>)
         \o DumpMembers(Tail(pairs))

Dumps(pairs) == <<"{">> \o DumpMembers(pairs) \o <<"}">>

BasePairs(source) ==
    << <<"fullCallsign", <<"K1ABC">> >>, <<"callsign", <<"K1ABC">> >>,
       <<"frequency", <<"14.250">> >>, <<"mode", <<"SSB">> >>,
       <<"spotter", <<"Spotter1">> >>, <<"time", <<"123456">> >>,
       <<"source", <<source>> >> >>

SotaPairs == BasePairs("sotawatch") \o << <<"summitName", <<"Mount Test">> >> >>
\* all seven keys, one of them with an empty value
EmptyValuePairs == << <<"fullCallsign", <<>> >> >> \o Tail(BasePairs("unknown"))
\* the "time" key is missing
MissingKeyPairs == SelectSeq(BasePairs("sotawatch"), LAMBDA p : p[1] # "time")

\* a line as the transport returns it: the text and its terminator
Line(text) == text \o <<"\n">>
Timeout == <<>>

GreetingText == <<"Hello ", Username, ", this is HamAlert">>
PromptText   == <<Username, " de HamAlert >">>
SuccessText  == <<"Operation successful">>

HsInputs ==
    { Timeout,
      Line(GreetingText),
      Line(PromptText),
      Line(SuccessText),
      Line(<<"Welcome">>),
      <<"\r", "\n">>,
      Line(<<BadByte>>) }

RlInputs ==
    { Timeout,
      <<"\r", "\n">>,
      Line(<<"Non JSON message">>),
      <<" ", "DX de W1AW", " ", "\r", "\n">>,
      Line(Dumps(SotaPairs)),
      Line(Dumps(EmptyValuePairs)),
      Line(Dumps(MissingKeyPairs)),
      Line(<<"42">>),
      Line(<<BadByte>>) }

\* the end-to-end scenario of test_run_processes_one_message_and_exits, after
\* the two login prompts
Scenario ==
    << Line(GreetingText), Line(PromptText), Line(SuccessText), Line(Dumps(SotaPairs)) >>

(* ------------------------------ state --------------------------------- *)
VARIABLES
    pc,          \* position of run(): Connect, LoginUser, LoginPass, HsRead,
                 \* HsDispatch, RlRead, RlDispatch, Returned, Exited
    conn,        \* the transport of the with-block: none, open, closed
    opened,      \* number of telnetlib.Telnet(...) calls made
    written,     \* texts passed to tn.write, in order
    raw,         \* result of the last read_until
    initialized, \* initialize_connection's flag
    keepalives,  \* number of tn.sock.sendall(IAC + NOP) calls
    sink,        \* texts passed to notifier.send_message, in order
    sleeps,      \* the time.sleep calls, in order: call site and seconds
    log,         \* error and warning records logged, in order
    now,         \* int(time.time())
    reads,       \* reads the main loop has dispatched
    arrived,     \* history: results of the main loop's reads, with the clock
    script,      \* history: how far the reads follow Scenario (-1: not)
    posts,       \* number of requests.post calls made by send_message
    hb           \* the HeartbeatService: configuration, thread, GETs, sleeps

vars == <<pc, conn, opened, written, raw, initialized, keepalives, sink,
          sleeps, log, now, reads, arrived, script, posts, hb>>

\* HeartbeatService(url, interval) before start()
HbNew(url, interval) ==
    [url |-> url, interval |-> interval, pc |-> "new", threads |-> 0,
     gets |-> <<>>, naps |-> <<>>, log |-> <<>>]

Init ==
    /\ pc = "Connect"
    /\ conn = "none"
    /\ opened = 0
    /\ written = <<>>
    /\ raw = <<>>
    /\ initialized = FALSE
    /\ keepalives = 0
    /\ sink = <<>>
    /\ sleeps = <<>>
    /\ log = <<>>
    /\ now = 0
    /\ reads = 0
    /\ arrived = <<>>
    /\ script = 0
    /\ posts = 0
    /\ hb = HbNew("", 300)

(* ----------------------------- actions -------------------------------- *)
\* the reads so far are the first script lines of Scenario; once the whole
\* scenario was read, further idle reads keep it
NextScript(r) ==
    IF script >= 0 /\ script < Len(Scenario) /\ r = Scenario[script + 1]
    THEN script + 1
    ELSE IF script = Len(Scenario) /\ r = Timeout THEN script
    ELSE -1

\* variant: the transport is left open when the session ends
FailLeak(what) ==
    /\ log' = Append(log, what)
    /\ conn' = conn
    /\ pc' = "Returned"

\* run's except clauses: the with-block closes the transport, the error is
\* logged, and run returns
Fail(what) ==
    /\ log' = Append(log, what)
    /\ conn' = IF conn = "open" THEN "closed" ELSE conn
    /\ pc' = "Returned"

ErrRefused == "error: Telnet connection refused"
ErrOther   == "error: An error occurred"
ErrWebhook == "error: Failed to send Discord webhook"
WarnFormat == "warning: Received data in unexpected format"

\* telnetlib.Telnet(host, port) succeeds
ConnectOk ==
    /\ pc = "Connect"
    /\ opened' = opened + 1
    /\ conn' = "open"
    /\ pc' = "LoginUser"
    /\ UNCHANGED <<written, raw, initialized, keepalives, sink, sleeps, log,
                   now, reads, arrived, script,
                   posts, hb>>

\* telnetlib.Telnet(host, port) raises ConnectionRefusedError
ConnectRefused ==
    /\ pc = "Connect"
    /\ opened' = opened + 1
    /\ Fail(ErrRefused)
    /\ UNCHANGED <<written, raw, initialized, keepalives, sink, sleeps,
                   now, reads, arrived, script,
                   posts, hb>>

\* telnetlib.Telnet(host, port) raises another OSError (DNS, timeout)
ConnectError ==
    /\ pc = "Connect"
    /\ opened' = opened + 1
    /\ Fail(ErrOther)
    /\ UNCHANGED <<written, raw, initialized, keepalives, sink, sleeps,
                   now, reads, arrived, script,
                   posts, hb>>

\* tn.read_until(b"login: "); tn.write(username + b"\n")
LoginUser ==
    /\ pc = "LoginUser"
    /\ written' = Append(written, <<Username, "\n">>)
    /\ pc' = "LoginPass"
    /\ UNCHANGED <<conn, opened, raw, initialized, keepalives, sink, sleeps,
                   log, now, reads, arrived, script,
                   posts, hb>>

\* tn.read_until(b"password: "); tn.write(password + b"\n"); then
\* initialize_connection starts with initialized = False
LoginPass ==
    /\ pc = "LoginPass"
    /\ written' = Append(written, <<CfgPassword, "\n">>)
    /\ initialized' = FALSE
    /\ pc' = "HsRead"
    /\ UNCHANGED <<conn, opened, raw, keepalives, sink, sleeps,
                   log, now, reads, arrived, script,
                   posts, hb>>

\* a read or write of the login raises (EOFError, ConnectionResetError)
LoginError ==
    /\ pc \in {"LoginUser", "LoginPass"}
    /\ Fail(ErrOther)
    /\ UNCHANGED <<opened, written, raw, initialized, keepalives, sink, sleeps,
                   now, reads, arrived, script,
                   posts, hb>>

\* initialize_connection: tn.read_until(b"\n", timeout=30) returns
HsRead ==
    /\ pc = "HsRead"
    /\ \E r \in HsInputs :
        /\ Strip(r) = PromptText => Len(sleeps) < MaxPrompts
        /\ raw' = r
        /\ script' = NextScript(r)
    /\ pc' = "HsDispatch"
    /\ UNCHANGED <<conn, opened, written, initialized, keepalives, sink,
                   sleeps, log, now, reads, arrived,
                   posts, hb>>

\* initialize_connection: tn.read_until raises
HsReadError ==
    /\ pc = "HsRead"
    /\ Fail(ErrOther)
    /\ UNCHANGED <<opened, written, raw, initialized, keepalives, sink, sleeps,
                   now, reads, arrived, script,
                   posts, hb>>

\* initialize_connection: time.sleep(1) before the mode-switch command
HsSleep == [site |-> "initialize_connection", secs |-> 1]

\* the line the handshake loop compares: .decode("utf-8").strip()
HsData == Strip(Decode(raw))

\* variant: an empty read of the handshake is answered by a keepalive
HsDispatchKeepalive ==
    /\ pc = "HsDispatch"
    /\ IF ~DecodeOk(raw) THEN
           /\ Fail(ErrOther)
           /\ UNCHANGED <<written, sleeps, initialized, keepalives>>
       ELSE IF HsData = GreetingText THEN
           /\ pc' = "HsRead"
           /\ UNCHANGED <<written, sleeps, initialized, log, conn, keepalives>>
       ELSE IF HsData = PromptText THEN
           /\ sleeps' = Append(sleeps, HsSleep)
           /\ written' = Append(written, <<"set/json", "\n">>)
           /\ pc' = "HsRead"
           /\ UNCHANGED <<initialized, log, conn, keepalives>>
       ELSE IF HsData = SuccessText THEN
           /\ initialized' = TRUE
           /\ pc' = "RlRead"
           /\ UNCHANGED <<written, sleeps, log, conn, keepalives>>
       ELSE
           /\ keepalives' = IF HsData = <<>> THEN keepalives + 1 ELSE keepalives
           /\ pc' = "HsRead"
           /\ UNCHANGED <<written, sleeps, initialized, log, conn>>
    /\ UNCHANGED <<opened, raw, sink, now, reads,
                   arrived, script,
                   posts, hb>>

\* initialize_connection: the body of the while loop after the read
HsDispatch ==
    /\ pc = "HsDispatch"
    /\ IF ~DecodeOk(raw) THEN
           /\ Fail(ErrOther)
           /\ UNCHANGED <<written, sleeps, initialized>>
       ELSE IF HsData = GreetingText THEN
           /\ pc' = "HsRead"
           /\ UNCHANGED <<written, sleeps, initialized, log, conn>>
       ELSE IF HsData = PromptText THEN
           /\ sleeps' = Append(sleeps, HsSleep)
           /\ written' = Append(written, <<"set/json", "\n">>)
           /\ pc' = "HsRead"
           /\ UNCHANGED <<initialized, log, conn>>
       ELSE IF HsData = SuccessText THEN
           /\ initialized' = TRUE
           /\ pc' = "RlRead"
           /\ UNCHANGED <<written, sleeps, log, conn>>
       ELSE
           /\ pc' = "HsRead"
           /\ UNCHANGED <<written, sleeps, initialized, log, conn>>
    /\ UNCHANGED <<opened, raw, keepalives, sink, now, reads,
                   arrived, script,
                   posts, hb>>

\* initialize_connection: tn.write(b"set/json\n") raises after the sleep
HsWriteError ==
    /\ pc = "HsDispatch"
    /\ DecodeOk(raw)
    /\ HsData = PromptText
    /\ sleeps' = Append(sleeps, HsSleep)
    /\ Fail(ErrOther)
    /\ UNCHANGED <<opened, written, raw, initialized, keepalives, sink,
                   now, reads, arrived, script,
                   posts, hb>>

\* main loop: tn.read_until(b"\n", timeout=30) returns
RlRead ==
    /\ pc = "RlRead"
    /\ reads < MaxReads
    /\ \E r \in RlInputs :
        /\ raw' = r
        /\ arrived' = Append(arrived, [raw |-> r, t |-> now])
        /\ script' = NextScript(r)
    /\ reads' = reads + 1
    /\ pc' = "RlDispatch"
    /\ UNCHANGED <<conn, opened, written, initialized, keepalives, sink,
                   sleeps, log, now,
                   posts, hb>>

\* main loop: tn.read_until raises
RlReadError ==
    /\ pc = "RlRead"
    /\ Fail(ErrOther)
    /\ UNCHANGED <<opened, written, raw, initialized, keepalives, sink, sleeps,
                   now, reads, arrived, script,
                   posts, hb>>

\* the line the main loop tests and hands to process_data
RlData == Strip(Decode(raw))

\* variant: the newest message is put in front of the earlier ones
SendMessageFront(content, outcome) ==
    /\ sink' = <<content>> \o sink
    /\ posts' = posts + 1
    /\ IF outcome = "204" THEN
           pc' = "RlRead" /\ UNCHANGED <<log, conn>>
       ELSE IF outcome = "other" THEN
           /\ log' = Append(log, ErrWebhook)
           /\ pc' = "RlRead"
           /\ UNCHANGED conn
       ELSE Fail(ErrOther)

\* variant: a status other than 204 is answered by a second POST
SendMessageRetry(content, outcome) ==
    /\ sink' = Append(sink, content)
    /\ posts' = IF outcome = "other" THEN posts + 2 ELSE posts + 1
    /\ IF outcome = "204" THEN
           pc' = "RlRead" /\ UNCHANGED <<log, conn>>
       ELSE IF outcome = "other" THEN
           /\ log' = Append(log, ErrWebhook)
           /\ pc' = "RlRead"
           /\ UNCHANGED conn
       ELSE Fail(ErrOther)

\* DiscordNotifier.send_message(content) with the outcome of requests.post:
\* status 204, another status, or an exception
SendMessage(content, outcome) ==
    /\ sink' = Append(sink, content)
    /\ posts' = posts + 1
    /\ IF outcome = "204" THEN
           pc' = "RlRead" /\ UNCHANGED <<log, conn>>
       ELSE IF outcome = "other" THEN
           /\ log' = Append(log, ErrWebhook)
           /\ pc' = "RlRead"
           /\ UNCHANGED conn
       ELSE Fail(ErrOther)

PostOutcomes == {"204", "other", "raise"}

\* TelnetListener.process_data(data)
ProcessData(data, outcome) ==
    LET c == Classify(data) IN
    IF c = "raw" THEN SendMessage(data, outcome)
    ELSE IF c = "message" THEN
        SendMessage(MessageBuilder(JsonLoads(data).obj, now), outcome)
    ELSE IF c = "drop" THEN
        /\ log' = Append(log, WarnFormat)
        /\ pc' = "RlRead"
        /\ UNCHANGED <<sink, posts, conn>>
    ELSE Fail(ErrOther) /\ UNCHANGED <<sink, posts>>

\* variant: an empty read is handed to process_data
IsIdleNever(data) == FALSE

\* main loop: `if not data`
IsIdle(data) == data = <<>>

\* main loop: the body after the read; the keepalive is sent
RlDispatch ==
    /\ pc = "RlDispatch"
    /\ IF ~DecodeOk(raw) THEN
           /\ Fail(ErrOther)
           /\ UNCHANGED <<keepalives, sink, posts>>
       ELSE IF IsIdle(RlData) THEN
           /\ keepalives' = keepalives + 1
           /\ pc' = "RlRead"
           /\ UNCHANGED <<sink, posts, log, conn>>
       ELSE
           /\ \E outcome \in PostOutcomes : ProcessData(RlData, outcome)
           /\ UNCHANGED keepalives
    /\ UNCHANGED <<opened, written, raw, initialized, sleeps, now,
                   reads, arrived, script, hb>>

\* main loop: tn.sock.sendall(IAC + NOP) raises
KeepaliveError ==
    /\ pc = "RlDispatch"
    /\ DecodeOk(raw)
    /\ IsIdle(RlData)
    /\ keepalives' = keepalives + 1
    /\ Fail(ErrOther)
    /\ UNCHANGED <<opened, written, raw, initialized, sink, sleeps, now,
                   reads, arrived, script,
                   posts, hb>>

\* the wall clock advances; it is read by message_builder only
Tick ==
    /\ pc = "RlRead"
    /\ now < MaxTime
    /\ now' = now + 1
    /\ UNCHANGED <<pc, conn, opened, written, raw, initialized, keepalives,
                   sink, sleeps, log, reads, arrived, script,
                   posts, hb>>

\* main(): listener.run() has returned and the process ends
MainExit ==
    /\ pc = "Returned"
    /\ pc' = "Exited"
    /\ UNCHANGED <<conn, opened, written, raw, initialized, keepalives, sink,
                   sleeps, log, now, reads, arrived, script,
                   posts, hb>>

Next ==
    \/ ConnectOk
    \/ ConnectRefused
    \/ ConnectError
    \/ LoginUser
    \/ LoginPass
    \/ LoginError
    \/ HsRead
    \/ HsReadError
    \/ HsDispatch
    \/ HsWriteError
    \/ RlRead
    \/ RlReadError
    \/ RlDispatch
    \/ KeepaliveError
    \/ Tick
    \/ MainExit

Spec == Init /\ [][Next]_vars

\* the interpreter keeps running the handshake loop: a read with timeout=30
\* returns, and the loop body runs after it.  Nothing is assumed about what
\* the remote sends.
FairSpec ==
    /\ Spec
    /\ WF_vars(HsRead)
    /\ WF_vars(HsDispatch)

TypeOK ==
    /\ pc \in {"Connect", "LoginUser", "LoginPass", "HsRead", "HsDispatch",
               "RlRead", "RlDispatch", "Returned", "Exited"}
    /\ conn \in {"none", "open", "closed"}
    /\ opened \in 0..1
    /\ initialized \in BOOLEAN
    /\ keepalives \in 0..MaxReads
    /\ Len(sink) <= MaxReads
    /\ now \in 0..MaxTime
    /\ Len(sleeps) <= MaxPrompts
    /\ reads \in 0..MaxReads
    /\ script \in -1..Len(Scenario)
    /\ posts \in 0..MaxReads

(* ------------------------------ claims -------------------------------- *)
\* run has caught an error of the session
Failed == \E i \in 1..Len(log) : log[i] \in {ErrRefused, ErrOther}
NumFailures == Cardinality({i \in 1..Len(log) : log[i] \in {ErrRefused, ErrOther}})

\* time.sleep calls made by run itself, outside the handshake
BackoffSleeps == SelectSeq(sleeps, LAMBDA c : c.site = "run")

\* min(2^(k-1), 60)
BackoffDelay(k) == IF 2 ^ (k - 1) > 60 THEN 60 ELSE 2 ^ (k - 1)

\* C1: after a session failure run does not return (and the process does not
\* end): it goes on to sleep and to open a new transport.
C1_RunRetriesAfterFailure == Failed => pc \notin {"Returned", "Exited"}

\* C2: the k-th consecutive failure is followed by a sleep of min(2^(k-1), 60)
\* seconds made by run; the first failure by a sleep of 1 second.
C2_BackoffSequence ==
    \A k \in 1..NumFailures :
        /\ Len(BackoffSleeps) >= k
        /\ BackoffSleeps[k].secs = BackoffDelay(k)

\* C3: the first failure after a successful handshake is followed by a backoff
\* sleep of 1 second (the delay was reset to 1 when the handshake completed).
C3_ResetAfterHandshake ==
    (initialized /\ Failed) =>
        /\ BackoffSleeps # <<>>
        /\ BackoffSleeps[Len(BackoffSleeps)].secs = 1

\* C4: every error of the session is caught and logged by run and never ends
\* the process.
C4_ErrorsNeverEndProcess ==
    /\ pc \in {"Returned", "Exited"} => Failed
    /\ Failed => pc # "Exited"

\* C5: in the main loop a read that timed out with no data makes exactly one
\* keepalive send, no sink call and no sleep; unless that send itself raises,
\* the session stays open on the same transport and the loop reads again.
C5_IdleKeepalive ==
    [][ (pc = "RlDispatch" /\ raw = Timeout) =>
            /\ keepalives' = keepalives + 1
            /\ sink' = sink
            /\ sleeps' = sleeps
            /\ opened' = opened
            /\ log' = log => (pc' = "RlRead" /\ conn' = "open" /\ initialized')
      ]_vars

C5_Witness ==
    /\ pc = "RlRead" /\ conn = "open"
    /\ raw = Timeout /\ keepalives = 1 /\ reads = 1 /\ log = <<>>

\* C6: a session does not stay in the handshake forever: it reaches Ready or
\* is aborted as a failure.
C6_HandshakeEnds ==
    (pc \in {"HsRead", "HsDispatch"}) ~> (pc \notin {"HsRead", "HsDispatch"})

KeysOf(obj) == {k[1] : k \in DOMAIN obj}

\* C8: a line that decodes as a JSON object lacking one of the seven required
\* keys causes no sink call and is dropped; one with all seven keys (whatever
\* their values) is forwarded exactly once as the message_builder text.
C8_RecordValidation ==
    [][ (pc = "RlDispatch" /\ DecodeOk(raw) /\ JsonLoads(Strip(raw)).ok
         /\ JsonLoads(Strip(raw)).kind = "object") =>
            LET obj == JsonLoads(Strip(raw)).obj IN
            IF RequiredFields \subseteq KeysOf(obj)
            THEN sink' = Append(sink, MessageBuilder(obj, now))
            ELSE sink' = sink /\ pc' = "RlRead" /\ log' = Append(log, WarnFormat)
      ]_vars

C8_Witness ==
    /\ pc = "RlRead"
    /\ Len(arrived) = 2
    /\ arrived[1].raw = Line(Dumps(MissingKeyPairs))
    /\ arrived[2].raw = Line(Dumps(EmptyValuePairs))
    /\ Len(sink) = 1
    /\ log = <<WarnFormat>>

\* the sink calls one read of the main loop is to produce
ForwardOf(a) ==
    IF ~DecodeOk(a.raw) \/ Strip(a.raw) = <<>> THEN <<>>
    ELSE LET j == JsonLoads(Strip(a.raw)) IN
         IF ~j.ok THEN << Strip(a.raw) >>
         ELSE IF j.kind = "object" /\ RequiredFields \subseteq KeysOf(j.obj)
              THEN << MessageBuilder(j.obj, a.t) >>
              ELSE <<>>

RECURSIVE ExpectedSink(_)
ExpectedSink(as) ==
    IF as = <<>> THEN <<>> ELSE ForwardOf(Head(as)) \o ExpectedSink(Tail(as))

\* the reads whose dispatch is over
Dispatched ==
    IF pc = "RlDispatch" THEN SubSeq(arrived, 1, Len(arrived) - 1) ELSE arrived

\* C9: within a session at most one line is being processed, and the sink
\* calls are, in order, those of the forwardable lines (non-JSON lines and
\* valid records) in their order of arrival: none reordered, duplicated or
\* skipped.
C9_SinkFollowsArrival ==
    /\ sink = ExpectedSink(Dispatched)
    /\ Len(arrived) = reads

C9_Witness ==
    /\ pc = "RlRead"
    /\ Len(sink) = 2
    /\ sink[1] # sink[2]
    /\ arrived[1].raw = Line(Dumps(SotaPairs))
    /\ arrived[2].raw = Line(<<"Non JSON message">>)

\* the record line of the scenario was read and is about to be dispatched
RecordPending == pc = "RlDispatch" /\ raw = Scenario[Len(Scenario)]

\* C10: when the transport yields the two login prompts, the greeting, the
\* command prompt, "Operation successful" and one complete sotawatch record
\* with summitName "Mount Test", the sink is called exactly once in total, with
\* the message_builder text of the record, which starts with the SOTA marker
\* and contains "Summit: Mount Test"; no sink call is made before the record.
C10_EndToEnd ==
    /\ (script \in 0..(Len(Scenario) - 1) \/ (script = Len(Scenario) /\ RecordPending))
          => sink = <<>>
    /\ (script = Len(Scenario) /\ ~RecordPending) =>
          /\ Len(sink) = 1
          /\ \E t \in 0..MaxTime :
                sink[1] = MessageBuilder(JsonLoads(Dumps(SotaPairs)).obj, t)
          /\ StartsWith(sink[1], <<SotaMarker>>)
          /\ Contains(sink[1], <<"Summit: ", "Mount Test">>)

C10_Witness ==
    /\ script = Len(Scenario)
    /\ pc = "RlRead"
    /\ Len(sink) = 1
    /\ written = << <<Username, "\n">>, <<CfgPassword, "\n">>, <<"set/json", "\n">> >>

\* C11: every send_message call makes exactly one POST, whatever the outcome;
\* a status other than 204 is logged, not retried and not surfaced: the
\* session stays in the main loop on the same transport and reads on.
C11_OnePostPerCall ==
    [][ sink' # sink =>
            /\ Len(sink') = Len(sink) + 1
            /\ posts' = posts + 1
            /\ log' = Append(log, ErrWebhook) =>
                   (pc' = "RlRead" /\ conn = "open" /\ conn' = "open" /\ initialized')
      ]_vars

C11_Witness ==
    /\ pc = "RlRead" /\ conn = "open"
    /\ log = <<ErrWebhook>>
    /\ posts = 1 /\ Len(sink) = 1

(* ------------------- message_builder as a pure function ---------------- *)
FmtSources  == {"sotawatch", "pota", "unknown"}
FmtSpotters == {"Spotter1", "W1AW"}
OptionalPairs ==
    << <<"summitName", <<"Mount Test">> >>, <<"wwffRef", <<"NP-123">> >>,
       <<"wwffName", <<"National Park">> >> >>
OptionalKeys == {"summitName", "wwffRef", "wwffName"}

\* a complete record of the given source and spotter with the optional keys opts
FmtPairs(source, spotter, opts) ==
    [i \in 1..Len(BasePairs(source)) |->
        IF BasePairs(source)[i][1] = "spotter"
        THEN <<"spotter", <<spotter>> >>
        ELSE BasePairs(source)[i]]
    \o SelectSeq(OptionalPairs, LAMBDA p : p[1] \in opts)

FmtPayloads ==
    { Dumps(FmtPairs(src, sp, opts)) :
        src \in FmtSources, sp \in FmtSpotters, opts \in SUBSET OptionalKeys }

\* a decoded record and a clock value
FmtInit ==
    /\ pc = "Format"
    /\ raw \in FmtPayloads
    /\ now \in 0..MaxTime
    /\ conn = "none" /\ opened = 0 /\ written = <<>> /\ initialized = FALSE
    /\ keepalives = 0 /\ sink = <<>> /\ sleeps = <<>> /\ log = <<>>
    /\ reads = 0 /\ arrived = <<>> /\ script = -1 /\ posts = 0
    /\ hb = HbNew("", 300)

\* message = self.message_builder(data_dict)
FmtApply ==
    /\ pc = "Format"
    /\ sink' = << MessageBuilder(JsonLoads(raw).obj, now) >>
    /\ pc' = "Formatted"
    /\ UNCHANGED <<conn, opened, written, raw, initialized, keepalives, sleeps,
                   log, now, reads, arrived, script, posts, hb>>

FmtSpec == FmtInit /\ [][FmtApply]_vars

\* the record given to message_builder and the text it returned
FmtPayload == JsonLoads(raw).obj
FmtOut == sink[1]
HasKey(payload, key) == <<key>> \in DOMAIN payload

\* C12: the built text contains the base text: the spotter right before
\* " spotted:" (after the marker, if any), then fullCallsign, frequency, mode
\* and the timestamp.
C12_BaseTextHasSpotter ==
    pc = "Formatted" =>
        LET body == IF FmtOut[1] \in {SotaMarker, PotaMarker}
                    THEN Tail(FmtOut) ELSE FmtOut
        IN StartsWith(body,
               Field(FmtPayload, "spotter") \o <<" spotted: **">>
               \o Field(FmtPayload, "fullCallsign") \o <<"** ", "on ">>
               \o Field(FmtPayload, "frequency") \o <<" ">>
               \o Field(FmtPayload, "mode")
               \o <<" <t:", TimeStr(now), ":R>">>)

\* C13: for source "pota" the text starts with the POTA marker; with wwffRef
\* and wwffName both present it contains "<wwffRef> <wwffName>" (one space)
\* followed by a line with the URL https://pota.app/#/park/<wwffRef>; with
\* either missing no park line and no URL is appended.
C13_PotaParkLine ==
    (pc = "Formatted" /\ SourceIs(FmtPayload, "pota")) =>
        /\ StartsWith(FmtOut, <<PotaMarker>>)
        /\ IF HasKey(FmtPayload, "wwffRef") /\ HasKey(FmtPayload, "wwffName")
           THEN Contains(FmtOut,
                    Field(FmtPayload, "wwffRef") \o <<" ">>
                    \o Field(FmtPayload, "wwffName")
                    \o <<"\n", "<", "https://pota.app/#/park/">>
                    \o Field(FmtPayload, "wwffRef"))
           ELSE /\ ~Contains(FmtOut, <<"Park:">>)
                /\ ~Contains(FmtOut, <<"https://pota.app/#/park/">>)

\* the record reduced to its seven required keys, with a source that selects
\* no marker: what message_builder makes of it is the base text
Unsourced(payload) ==
    [k \in {<<f>> : f \in RequiredFields} |->
        IF k = <<"source">> THEN [kind |-> "string", text |-> <<"unknown">>]
        ELSE payload[k]]
BaseText(payload, t) == MessageBuilder(Unsourced(payload), t)

\* C14: the marker depends on the source alone: for "sotawatch" the text is
\* the SOTA marker, the base text and, iff summitName is present, a line
\* "Summit: <summitName>"; for a source other than "sotawatch" and "pota" it is
\* the base text only, without marker, summit line, park line or URL, whatever
\* optional keys the record has.
C14_MarkerFromSource ==
    pc = "Formatted" =>
        /\ SourceIs(FmtPayload, "sotawatch") =>
              FmtOut = <<SotaMarker>> \o BaseText(FmtPayload, now)
                       \o (IF HasKey(FmtPayload, "summitName")
                           THEN <<"\n", "Summit: ">> \o Field(FmtPayload, "summitName")
                           ELSE <<>>)
        /\ (~SourceIs(FmtPayload, "sotawatch") /\ ~SourceIs(FmtPayload, "pota")) =>
              /\ FmtOut = BaseText(FmtPayload, now)
              /\ \A i \in 1..Len(FmtOut) :
                    FmtOut[i] \notin {SotaMarker, PotaMarker, "Summit: ", "Park:",
                                      "https://pota.app/#/park/"}

C14_Witness ==
    /\ pc = "Formatted"
    /\ SourceIs(FmtPayload, "unknown")
    /\ \A k \in OptionalKeys : HasKey(FmtPayload, k)
    /\ Len(sink) = 1

(* ------------------------- HeartbeatService ----------------------------- *)
MaxPings == 6
HeartbeatTimeout == 10
HbUrls == {"", "http://hb", "https://hc-ping.com/uuid"}
HbIntervals == {1, 5, 60, 300}

HbWarnNoUrl == [level |-> "warning",
                msg |-> "No heartbeat URL provided; heartbeat disabled."]
HbInfoStart(interval, url) ==
    [level |-> "info", msg |-> "Starting heartbeat service (interval: %ss) -> %s",
     interval |-> interval, url |-> url]

\* HeartbeatService(url, interval), not started yet
HbInit ==
    /\ hb \in {HbNew(u, i) : u \in HbUrls, i \in HbIntervals}
    /\ pc = "Connect" /\ conn = "none" /\ opened = 0 /\ written = <<>>
    /\ raw = <<>> /\ initialized = FALSE /\ keepalives = 0 /\ sink = <<>>
    /\ sleeps = <<>> /\ log = <<>> /\ now = 0 /\ reads = 0
    /\ arrived = <<>> /\ script = 0 /\ posts = 0

\* variant: the thread is started whatever the URL
HbStartAlways ==
    /\ hb.pc = "new"
    /\ hb' = [hb EXCEPT !.pc = "ping", !.threads = @ + 1,
                        !.log = Append(@, HbInfoStart(hb.interval, hb.url))]
    /\ UNCHANGED <<pc, conn, opened, written, raw, initialized, keepalives, sink,
                   sleeps, log, now, reads, arrived, script, posts>>

\* HeartbeatService.start()
HbStart ==
    /\ hb.pc = "new"
    /\ IF hb.url = ""
       THEN hb' = [hb EXCEPT !.pc = "disabled", !.log = Append(@, HbWarnNoUrl)]
       ELSE hb' = [hb EXCEPT !.pc = "ping", !.threads = @ + 1,
                             !.log = Append(@, HbInfoStart(hb.interval, hb.url))]
    /\ UNCHANGED <<pc, conn, opened, written, raw, initialized, keepalives, sink,
                   sleeps, log, now, reads, arrived, script, posts>>

\* HeartbeatService._run(): requests.get(self.url, timeout=10)
HbPing ==
    /\ hb.pc = "ping"
    /\ Len(hb.gets) < MaxPings
    /\ hb' = [hb EXCEPT !.pc = "sleep",
                        !.gets = Append(@, [url |-> hb.url, timeout |-> HeartbeatTimeout])]
    /\ UNCHANGED <<pc, conn, opened, written, raw, initialized, keepalives, sink,
                   sleeps, log, now, reads, arrived, script, posts>>

\* HeartbeatService._run(): time.sleep(self.interval), then the next iteration
HbSleep ==
    /\ hb.pc = "sleep"
    /\ hb' = [hb EXCEPT !.pc = "ping", !.naps = Append(@, hb.interval)]
    /\ UNCHANGED <<pc, conn, opened, written, raw, initialized, keepalives, sink,
                   sleeps, log, now, reads, arrived, script, posts>>

HbNext == HbStart \/ HbPing \/ HbSleep
HbSpec == HbInit /\ [][HbNext]_vars

\* C15: pings are issued only with a heartbeat URL. start() with an empty URL
\* logs the warning and never starts the thread, so no GET is ever issued; with
\* a URL it starts the thread exactly once, and every loop iteration issues one
\* GET of that URL with timeout 10 and then sleeps the interval.
C15_HeartbeatOnlyWithUrl ==
    [][ /\ hb.url = "" => (hb'.threads = 0 /\ hb'.gets = <<>> /\ hb'.naps = <<>>)
        /\ (hb.pc = "new" /\ hb'.pc # "new") =>
              IF hb.url = ""
              THEN hb'.log = <<HbWarnNoUrl>> /\ hb'.threads = 0
              ELSE hb'.threads = 1
        /\ hb.pc # "new" => hb'.threads = hb.threads
        /\ hb'.gets # hb.gets =>
              /\ hb.threads = 1
              /\ hb'.gets = Append(hb.gets, [url |-> hb.url, timeout |-> 10])
              /\ Len(hb.naps) = Len(hb.gets)
              /\ hb'.naps = hb.naps
        /\ hb'.naps # hb.naps =>
              /\ hb'.naps = Append(hb.naps, hb.interval)
              /\ Len(hb'.naps) = Len(hb.gets)
              /\ hb'.gets = hb.gets
      ]_vars

C15_Witness ==
    /\ hb.url # "" /\ hb.threads = 1
    /\ Len(hb.gets) = 2 /\ Len(hb.naps) = 2
    /\ hb.pc = "ping"

(* --------------------- handshake and session claims -------------------- *)
SetJson == <<"set/json", "\n">>
CommandWritten == \E i \in 1..Len(written) : written[i] = SetJson

\* C16: the handshake steps are sequential: whenever initialize_connection
\* has returned True, "set/json\n" was written before the success line was
\* accepted; a success line before the command does not lead to Ready.
C16_CommandBeforeSuccess == initialized => CommandWritten

\* the line decodes as JSON but is not an object with all required keys
IncompleteRecord(data) ==
    LET j == JsonLoads(data) IN
    /\ j.ok
    /\ ~(j.kind = "object" /\ \A key \in RequiredFields : <<key>> \in DOMAIN j.obj)

\* C17: a line that decodes as JSON but is no complete record (a number, a
\* string, an array, true, false and null included) is dropped: no sink call,
\* the session stays in the main loop on its transport and reads the next line.
C17_IncompleteDropped ==
    [][ (pc = "RlDispatch" /\ DecodeOk(raw) /\ RlData # <<>>
         /\ IncompleteRecord(RlData)) =>
            /\ sink' = sink
            /\ posts' = posts
            /\ pc' = "RlRead"
            /\ conn' = "open"
            /\ opened' = opened
            /\ initialized'
      ]_vars

\* C18: a keepalive is sent only when a read timed out without data; a blank
\* or whitespace-only line that was received does not trigger one.
C18_KeepaliveOnlyOnTimeout ==
    [][ keepalives' # keepalives => raw = Timeout ]_vars

SessionPcs == {"LoginUser", "LoginPass", "HsRead", "HsDispatch", "RlRead", "RlDispatch"}

C20_OnlyWhenReady ==
    [][ /\ (sink' # sink \/ keepalives' # keepalives \/ posts' # posts) =>
              (initialized /\ pc = "RlDispatch")
        /\ (pc = "HsDispatch" /\ raw = Timeout) =>
              /\ written' = written
              /\ sleeps' = sleeps
              /\ initialized' = initialized
              /\ keepalives' = keepalives
              /\ sink' = sink
              /\ log' = log
              /\ conn' = conn
              /\ pc' = "HsRead"
      ]_vars

C20_Witness ==
    /\ pc = "HsRead" /\ raw = Timeout /\ script = -1
    /\ Len(written) = 2 /\ ~initialized
    /\ keepalives = 0 /\ sink = <<>> /\ log = <<>>

====
